---- MODULE Spec2Model ----
(***************************************************************************)
(* Model of the frontend analyzer of src/src/main.rs: the recursive file   *)
(* collector (find_files_with_extension / find_files_recursive), the 11    *)
(* category evaluators, analyze_all and main.                              *)
(*                                                                         *)
(* A file or directory name is the sequence of its '.'-separated segments: *)
(* "x.component.ts" is <<"x","component","ts">>, ".git" is <<"","git">>,   *)
(* "src" is <<"src">>.  A directory is the sequence of the names on the    *)
(* way from the project root; the root is <<>>.  A file content is a       *)
(* sequence of whitespace-separated words.  The message texts of the       *)
(* source are Japanese; the model names each by an ASCII key.              *)
(***************************************************************************)
EXTENDS Naturals, Sequences, FiniteSets

VARIABLES
    rootKind,    \* what project_path names: "dir", "denied", "missing", "file"
    unlistable,  \* the nested directories on which fs::read_dir fails
    files,       \* the files of the tree, in the order read_dir yields them
    cat,         \* analyze_all: the category being evaluated (1..11), 12 = returned
    pops,        \* the populations the current category has collected so far
    results,     \* analyze_all: the local vector `results`
    ret,         \* the value analyze_all returned: "none", "Ok", "Err"
    printed,     \* main: the reports printed
    exitCode,    \* main: the exit status, "running" until main ends
    earlier      \* what an earlier call of analyze_all on this analyzer returned,
                 \* and the tree it ran on: <<>> during the first call

vars == <<rootKind, unlistable, files, cat, pops, results, ret, printed, exitCode,
          earlier>>
fsVars == <<rootKind, unlistable, files>>

-----------------------------------------------------------------------------
(* Bounds *)

MaxFiles == 2   \* files in the tree
MaxWords == 2   \* words of text in the whole tree

-----------------------------------------------------------------------------
(* The tree *)

Root == <<>>
D_src == <<"src">>
D_node_modules == <<"node_modules">>
D_git == <<"", "git">>
D_cache == <<"", "cache">>
D_lib == <<"lib">>

\* The nested directories, in a fixed order of discovery.
DirOrder == << <<D_src>>, <<D_src, D_cache>>, <<D_git>>, <<D_node_modules>>,
               <<D_node_modules, D_lib>> >>
NestedDirs == {DirOrder[i] : i \in DOMAIN DirOrder}
Dirs == {Root} \cup NestedDirs

Parent(dir) == SubSeq(dir, 1, Len(dir) - 1)
DirName(dir) == dir[Len(dir)]

\* The extensions analyze_* ask for.
EXT_html == <<"html">>
EXT_component_ts == <<"component", "ts">>
EXT_css == <<"css">>
EXT_scss == <<"scss">>
EXT_ts == <<"ts">>

-----------------------------------------------------------------------------
(* Path predicates of std::path and the directory tests of                 *)
(* find_files_recursive                                                    *)

\* str::starts_with('.') on a name
starts_with_dot(name) == Len(name) > 1 /\ name[1] = ""

\* Path::extension: None without a '.', None for a name that begins with
\* '.' and has no other '.', else the part after the last '.'.
HasExtension(name) == Len(name) > 1 /\ ~(Len(name) = 2 /\ name[1] = "")
PathExtension(name) == <<name[Len(name)]>>

\* str::ends_with(format!(".{}", extension)) on the path of the file
ends_with_dotted(name, extension) ==
    /\ Len(name) > Len(extension)
    /\ SubSeq(name, Len(name) - Len(extension) + 1, Len(name)) = extension

\* MatchesExtension without the ends_with test
MatchesExtension_extension_only(name, extension) ==
    HasExtension(name) /\ PathExtension(name) = extension

\* the test of lines 820-823
MatchesExtension(name, extension) ==
    /\ HasExtension(name)
    /\ \/ PathExtension(name) = extension
       \/ ends_with_dotted(name, extension)

\* The file system the analyzer reads.
FS == [rootKind |-> rootKind, unlistable |-> unlistable, files |-> files]

\* Path::is_dir
is_dir(fs, dir) ==
    IF dir = Root THEN fs.rootKind \in {"dir", "denied"} ELSE dir \in NestedDirs

\* fs::read_dir(path) is Ok
read_dir_ok(fs, dir) ==
    IF dir = Root THEN fs.rootKind = "dir" ELSE dir \notin fs.unlistable

\* Descends without the node_modules test
Descends_dot_only(name) == ~starts_with_dot(name)

\* line 817: the directories the traversal descends into
Descends(name) == ~starts_with_dot(name) /\ name # D_node_modules

-----------------------------------------------------------------------------
(* find_files_recursive and find_files_with_extension                      *)

SubDirsOf(dir) == SelectSeq(DirOrder, LAMBDA d : Parent(d) = dir)
FilesIn(fs, dir) ==
    SelectSeq([i \in 1..Len(fs.files) |-> i], LAMBDA i : fs.files[i].dir = dir)

\* The entries fs::read_dir yields for a directory, in the order it yields them:
\* its files in the order of `files`, then its subdirectories.
Entries(fs, dir) ==
    LET ds == SubDirsOf(dir)
        fl == FilesIn(fs, dir)
        de == [k \in 1..Len(ds) |-> [isDir |-> TRUE, dir |-> ds[k], file |-> 0]]
        fe == [k \in 1..Len(fl) |-> [isDir |-> FALSE, dir |-> dir, file |-> fl[k]]]
    IN  fe \o de

RECURSIVE find_files_recursive(_, _, _, _)
RECURSIVE walk_entries(_, _, _, _)

\* the body of the for loop of lines 812-827, over the remaining entries
walk_entries(fs, entries, extension, acc) ==
    IF entries = <<>> THEN [ok |-> TRUE, files |-> acc]
    ELSE LET e == Head(entries) IN
         IF e.isDir
         THEN IF Descends(DirName(e.dir))
              THEN LET r == find_files_recursive(fs, e.dir, extension, acc) IN
                   IF r.ok THEN walk_entries(fs, Tail(entries), extension, r.files)
                   ELSE r
              ELSE walk_entries(fs, Tail(entries), extension, acc)
         ELSE IF MatchesExtension(fs.files[e.file].name, extension)
              THEN walk_entries(fs, Tail(entries), extension, Append(acc, e.file))
              ELSE walk_entries(fs, Tail(entries), extension, acc)

find_files_recursive(fs, dir, extension, acc) ==
    IF is_dir(fs, dir)
    THEN IF read_dir_ok(fs, dir)
         THEN walk_entries(fs, Entries(fs, dir), extension, acc)
         ELSE [ok |-> FALSE, files |-> acc]
    ELSE [ok |-> TRUE, files |-> acc]

\* Ok(files) or Err; the vector is dropped on Err.
find_files_with_extension(fs, extension) ==
    LET r == find_files_recursive(fs, Root, extension, <<>>) IN
    IF r.ok THEN r ELSE [ok |-> FALSE, files |-> <<>>]

-----------------------------------------------------------------------------
(* File contents: words, and the searches the evaluators run on them       *)

\* The searched substrings that occur in a word (str::contains on the word;
\* no searched substring holds white space, so none spans two words).
Subs(w) ==
    CASE w = "localStorage" -> {"localStorage"}
      [] w = "sessionStorage" -> {"sessionStorage"}
      [] w = "IndexedDB" -> {"IndexedDB"}
      [] w = "indexedDB" -> {"indexedDB"}
      [] w = "HttpClient" -> {"HttpClient"}
      [] w = "http.get(" -> {"http.", ".get("}
      [] w = ".post(" -> {".post("}
      [] w = "catchError" -> {"catchError"}
      [] w = ".catch(" -> {"catch("}
      [] w = "'https://a.io'" -> {"https"}
      [] w = "innerHTML" -> {"innerHTML"}
      [] w = "eval(" -> {"eval("}
      [] w = "DomSanitizer" -> {"DomSanitizer"}
      [] w = "sanitize" -> {"sanitize"}
      [] w = "redirect" -> {"redirect"}
      [] w = "csrf" -> {"csrf"}
      [] w = "AuthService" -> {"AuthService"}
      [] w = "login" -> {"login"}
      [] w = "token" -> {"token"}
      [] w = "password" -> {"password"}
      [] w = "required" -> {"required"}
      [] w = "timeout" -> {"timeout"}
      [] w = "autologout" -> {"auto", "logout"}
      [] w = "@ngrx" -> {"@ngrx"}
      [] w = "@Injectable" -> {"@Injectable"}
      [] w = "BehaviorSubject" -> {"Subject", "BehaviorSubject"}
      [] w = "RouterModule" -> {"RouterModule"}
      [] w = "AuthGuard" -> {"Guard"}
      [] w = "loadChildren" -> {"loadChildren"}
      [] w = "--primary" -> {"--primary"}
      [] w = "@mixin" -> {"@mixin"}
      [] w = "theme" -> {"theme"}
      [] w = "ErrorHandler" -> {"ErrorHandler"}
      [] w = "HttpInterceptor" -> {"HttpInterceptor"}
      [] w = "error" -> {"error"}
      [] w = "OnPush" -> {"OnPush"}
      [] w = "cdk-virtual-scroll" -> {"cdk-virtual-scroll"}
      [] w = "ServiceWorker" -> {"ServiceWorker"}
      [] OTHER -> {}

\* str::contains
contains(content, pat) == \E k \in 1..Len(content) : pat \in Subs(content[k])

\* line 155: the matches of ["'](https?://[^"']+)["'] in a content
url_regex_count(content) ==
    Cardinality({k \in 1..Len(content) : content[k] = "'https://a.io'"})

\* line 683: the matches of try\s*\{ in a content: "try{", or "try" and white
\* space and "{"
try_regex_count(content) ==
    Cardinality({k \in 1..Len(content) : content[k] = "try{"})
    + Cardinality({k \in 1..Len(content) :
                     /\ content[k] = "try"
                     /\ k < Len(content)
                     /\ content[k + 1] = "{"})

\* line 833: @media\s*\([^)]*\) matches in a content
media_query_is_match(content) ==
    \/ \E k \in 1..Len(content) : content[k] = "@media(w)"
    \/ \E k \in 1..Len(content) - 1 : content[k] = "@media" /\ content[k + 1] = "(w)"

\* ReadContents with every read_to_string taken as Ok
ReadContents_every_file(fs, pop) ==
    [k \in 1..Len(pop) |-> fs.files[pop[k]].content]

\* for file_path in &files { if let Ok(content) = fs::read_to_string(file_path)
\* ... }: the contents the loop body sees, in the order of the population
ReadContents(fs, pop) ==
    LET rd == SelectSeq(pop, LAMBDA i : fs.files[i].readable)
    IN  [k \in 1..Len(rd) |-> fs.files[rd[k]].content]

\* content.contains(p1) || content.contains(p2) || ...
contains_any(content, pats) == \E pat \in pats : contains(content, pat)

\* a counter incremented once per content that contains one of the patterns
CountFiles(texts, pats) == Cardinality({k \in 1..Len(texts) : contains_any(texts[k], pats)})

\* a flag set by any content that contains one of the patterns
AnyFile(texts, pats) == \E k \in 1..Len(texts) : contains_any(texts[k], pats)

\* a flag set by any content that contains one of patsA and one of patsB
AnyFileBoth(texts, patsA, patsB) ==
    \E k \in 1..Len(texts) : contains_any(texts[k], patsA) /\ contains_any(texts[k], patsB)

\* a counter that grows by the number of matches in each content
RECURSIVE SumTry(_)
SumTry(texts) ==
    IF texts = <<>> THEN 0 ELSE try_regex_count(Head(texts)) + SumTry(Tail(texts))

RECURSIVE SumUrl(_)
SumUrl(texts) ==
    IF texts = <<>> THEN 0 ELSE url_regex_count(Head(texts)) + SumUrl(Tail(texts))

\* The status words of the detail lines
JISSOUZUMI == "implemented"    \* "jissou-zumi", lines 259 ff.
MIKAKUNIN == "unconfirmed"     \* "mikakunin", lines 261 ff.
KAKUNINZUMI == "confirmed"     \* "kakunin-zumi", lines 354 ff.

Impl(b) == IF b THEN JISSOUZUMI ELSE MIKAKUNIN
Conf(b) == IF b THEN KAKUNINZUMI ELSE MIKAKUNIN

\* Report with a status that follows the warnings
Report_status_from_warnings(category, details, warnings) ==
    [category |-> category, status |-> IF warnings = <<>> THEN "OK" ELSE "WARNING",
     details |-> details, warnings |-> warnings, errors |-> <<>>]

\* AnalysisResult with status "OK" and no errors, as every analyze_* builds it
Report(category, details, warnings) ==
    [category |-> category, status |-> "OK", details |-> details,
     warnings |-> warnings, errors |-> <<>>]

\* the warnings pushed under a condition
WarnIf(b, w) == IF b THEN <<w>> ELSE <<>>

-----------------------------------------------------------------------------
(* The category evaluators: what each analyze_* builds from its            *)
(* populations.  A detail line is the tuple of its label and its values.   *)

\* CATEGORY with session and security exchanged
CATEGORY_swapped ==
    <<"screens", "storage", "API", "authentication", "security", "session",
      "state management", "routing", "design system", "error handling", "performance">>

\* The category names, lines 48, 95, 143, 217, 307, 372, 457, 535, 600, 660, 720
CATEGORY == <<"screens", "storage", "API", "authentication", "session", "security",
              "state management", "routing", "design system", "error handling",
              "performance">>

\* check_responsive_design with "every file matches" for "some file matches"
check_responsive_design_every(fs, css_files, scss_files) ==
    LET texts == ReadContents(fs, css_files \o scss_files)
    IN  \A k \in 1..Len(texts) : media_query_is_match(texts[k])

\* lines 832-843
check_responsive_design(fs, css_files, scss_files) ==
    LET texts == ReadContents(fs, css_files \o scss_files)
    IN  \E k \in 1..Len(texts) : media_query_is_match(texts[k])

ui_screens_result(fs, html_files, component_files, css_files, scss_files) ==
    LET responsive == check_responsive_design(fs, css_files, scss_files) IN
    Report(CATEGORY[1],
           << <<"HTML_FILES", Len(html_files)>>,
              <<"COMPONENTS", Len(component_files)>>,
              <<"STYLE_FILES", Len(css_files) + Len(scss_files), Len(css_files),
                Len(scss_files)>> >>
           \o (IF responsive THEN << <<"RESPONSIVE", JISSOUZUMI>> >> ELSE <<>>),
           WarnIf(~responsive, "W_NO_RESPONSIVE"))

local_storage_usage(texts) == CountFiles(texts, {"localStorage"})
session_storage_usage(texts) == CountFiles(texts, {"sessionStorage"})
indexed_db_usage(texts) ==
    CountFiles(texts, {"indexedDB", "IndexedDB"})

data_storage_result(texts) ==
    Report(CATEGORY[2],
           << <<"LOCAL_STORAGE", local_storage_usage(texts)>>,
              <<"SESSION_STORAGE", session_storage_usage(texts)>>,
              <<"INDEXED_DB", indexed_db_usage(texts)>> >>,
           WarnIf(local_storage_usage(texts) = 0 /\ session_storage_usage(texts) = 0
                  /\ indexed_db_usage(texts) = 0, "W_NO_STORAGE"))

\* line 156, with the pattern format!(".{}(", method) and method.to_uppercase()
http_methods ==
    << [pat |-> ".get(", upper |-> "GET"], [pat |-> ".post(", upper |-> "POST"],
       [pat |-> ".put(", upper |-> "PUT"], [pat |-> ".delete(", upper |-> "DELETE"],
       [pat |-> ".patch(", upper |-> "PATCH"] >>

\* lines 171-177: the detail lines one content adds
method_details(content) ==
    LET hit == SelectSeq(http_methods, LAMBDA m : contains(content, m.pat))
    IN  [k \in 1..Len(hit) |-> <<"HTTP_METHOD", hit[k].upper>>]

\* lines 158-184: the detail lines pushed inside the loop over the files
RECURSIVE api_loop_details(_)
api_loop_details(texts) ==
    IF texts = <<>> THEN <<>>
    ELSE method_details(Head(texts)) \o api_loop_details(Tail(texts))

http_client_usage(texts) ==
    CountFiles(texts, {"HttpClient", "http."})
api_endpoints_len(texts) == SumUrl(texts)
\* error_handling_count without the "catch(" test
error_handling_count_catchError_only(texts) ==
    CountFiles(texts, {"catchError"})

error_handling_count(texts) ==
    CountFiles(texts, {"catchError", "catch("})

api_result(texts) ==
    Report(CATEGORY[3],
           api_loop_details(texts)
           \o << <<"HTTP_CLIENT_FILES", http_client_usage(texts)>>,
                 <<"API_ENDPOINTS", api_endpoints_len(texts)>>,
                 <<"ERROR_HANDLING", error_handling_count(texts)>> >>,
           WarnIf(http_client_usage(texts) = 0, "W_NO_HTTP")
           \o WarnIf(error_handling_count(texts) = 0, "W_NO_API_ERROR_HANDLING"))

authentication_result(texts) ==
    LET auth_service_found ==
            AnyFile(texts, {"AuthService", "auth.service"})
        login_component_found ==
            AnyFile(texts, {"login", "Login"})
        jwt_usage ==
            AnyFile(texts, {"jwt", "JWT", "token"})
        password_validation ==
            AnyFileBoth(texts, {"password"}, {"validate", "required"})
    IN  Report(CATEGORY[4],
               << <<"AUTH_SERVICE", Impl(auth_service_found)>>,
                  <<"LOGIN", Impl(login_component_found)>>,
                  <<"JWT", Impl(jwt_usage)>>,
                  <<"PASSWORD_VALIDATION", Impl(password_validation)>> >>,
               WarnIf(~auth_service_found, "W_NO_AUTH_SERVICE")
               \o WarnIf(~login_component_found, "W_NO_LOGIN"))

session_management_result(texts) ==
    LET session_timeout ==
            AnyFile(texts, {"timeout", "expire"})
        auto_logout ==
            AnyFileBoth(texts, {"logout"}, {"auto"})
        session_storage == AnyFile(texts, {"sessionStorage"})
    IN  Report(CATEGORY[5],
               << <<"SESSION_TIMEOUT", Impl(session_timeout)>>,
                  <<"AUTO_LOGOUT", Impl(auto_logout)>>,
                  <<"SESSION_STORAGE_USE", Conf(session_storage)>> >>,
               WarnIf(~session_timeout, "W_NO_SESSION_TIMEOUT"))

\* lines 403-412: the warnings one content adds to dangerous_patterns
dangerous_of(content) ==
    (IF contains(content, "innerHTML") THEN <<"W_INNERHTML">> ELSE <<>>)
    \o (IF contains(content, "eval(") THEN <<"W_EVAL">> ELSE <<>>)

RECURSIVE dangerous_patterns(_)
dangerous_patterns(texts) ==
    IF texts = <<>> THEN <<>>
    ELSE dangerous_of(Head(texts)) \o dangerous_patterns(Tail(texts))

security_result(texts) ==
    LET sanitization_found ==
            AnyFile(texts, {"sanitize", "DomSanitizer"})
        csrf_protection ==
            AnyFile(texts, {"csrf", "CSRF"})
        https_enforcement ==
            AnyFileBoth(texts, {"https"}, {"redirect"})
    IN  Report(CATEGORY[6],
               << <<"SANITIZE", Impl(sanitization_found)>>,
                  <<"CSRF", Impl(csrf_protection)>>,
                  <<"HTTPS", Impl(https_enforcement)>> >>,
               dangerous_patterns(texts)
               \o WarnIf(~sanitization_found, "W_NO_SANITIZE"))

state_management_result(texts) ==
    LET ngrx_usage == AnyFile(texts, {"@ngrx", "NgRx"})
        akita_usage == AnyFile(texts, {"akita", "Akita"})
        service_usage == AnyFile(texts, {"@Injectable"})
        subject_usage ==
            AnyFile(texts, {"Subject", "BehaviorSubject"})
    IN  Report(CATEGORY[7],
               << <<"NGRX", Conf(ngrx_usage)>>,
                  <<"AKITA", Conf(akita_usage)>>,
                  <<"SERVICE", Conf(service_usage)>>,
                  <<"SUBJECT", Conf(subject_usage)>> >>,
               WarnIf(~ngrx_usage /\ ~akita_usage /\ ~subject_usage, "W_NO_STATE_MANAGEMENT"))

routing_result(texts) ==
    LET routing_module_found ==
            AnyFile(texts, {"RouterModule", "Routes"})
        guards_found ==
            AnyFile(texts, {"CanActivate", "Guard"})
        lazy_loading == AnyFile(texts, {"loadChildren"})
    IN  Report(CATEGORY[8],
               << <<"ROUTING", Impl(routing_module_found)>>,
                  <<"GUARDS", Impl(guards_found)>>,
                  <<"LAZY_LOADING", Impl(lazy_loading)>> >>,
               WarnIf(~routing_module_found, "W_NO_ROUTING"))

ui_design_system_result(texts) ==
    LET design_tokens ==
            AnyFile(texts, {"$primary", "--primary"})
        component_library ==
            AnyFile(texts, {"@mixin", "@include"})
        theme_support == AnyFile(texts, {"theme", "dark"})
    IN  Report(CATEGORY[9],
               << <<"DESIGN_TOKENS", Impl(design_tokens)>>,
                  <<"COMPONENT_LIBRARY", Impl(component_library)>>,
                  <<"THEME", Impl(theme_support)>> >>,
               <<>>)

\* try_catch_blocks counting the files with a match, not the matches
try_catch_blocks_per_file(texts) ==
    Cardinality({k \in 1..Len(texts) : try_regex_count(texts[k]) > 0})

try_catch_blocks(texts) == SumTry(texts)

error_handling_result(texts) ==
    LET global_error_handler == AnyFile(texts, {"ErrorHandler"})
        error_interceptor ==
            AnyFileBoth(texts, {"HttpInterceptor"}, {"error"})
    IN  Report(CATEGORY[10],
               << <<"GLOBAL_ERROR_HANDLER", Impl(global_error_handler)>>,
                  <<"TRY_CATCH_BLOCKS", try_catch_blocks(texts)>>,
                  <<"ERROR_INTERCEPTOR", Impl(error_interceptor)>> >>,
               WarnIf(~global_error_handler, "W_NO_GLOBAL_ERROR_HANDLER"))

performance_result(texts) ==
    LET lazy_loading == AnyFile(texts, {"loadChildren"})
        change_detection ==
            AnyFile(texts, {"OnPush", "ChangeDetectionStrategy"})
        virtual_scrolling ==
            AnyFile(texts, {"cdk-virtual-scroll", "VirtualScrollStrategy"})
        service_worker == AnyFile(texts, {"ServiceWorker"})
    IN  Report(CATEGORY[11],
               << <<"LAZY_LOADING", Impl(lazy_loading)>>,
                  <<"CHANGE_DETECTION", Impl(change_detection)>>,
                  <<"VIRTUAL_SCROLL", Impl(virtual_scrolling)>>,
                  <<"SERVICE_WORKER", Impl(service_worker)>> >>,
               WarnIf(~lazy_loading, "W_NO_LAZY_LOADING"))

-----------------------------------------------------------------------------
(* The initial states: the trees and texts the analyzer is run on          *)

\* File names of the tree-shaped inputs: x.ts, x.component.ts, .ts, x.html,
\* x.css, x.scss and x
TreeNames == { <<"x", "ts">>, <<"x", "component", "ts">>, <<"", "ts">>, <<"x", "html">>,
               <<"x", "css">>, <<"x", "scss">>, <<"x">> }

\* Every name in the root, the two TypeScript names in every directory.
TreeFiles ==
    {[dir |-> d, name |-> n, content |-> <<>>, readable |-> TRUE] :
        d \in {Root}, n \in TreeNames}
    \cup {[dir |-> d, name |-> n, content |-> <<>>, readable |-> TRUE] :
        d \in NestedDirs, n \in {<<"x", "ts">>, <<"x", "component", "ts">>}}

\* No two files of a directory have the same name.
DistinctPaths(fl) ==
    \A i, j \in 1..Len(fl) : i # j => <<fl[i].dir, fl[i].name>> # <<fl[j].dir, fl[j].name>>

SeqsUpTo(S, n) == UNION {[1..k -> S] : k \in 0..n}

RunStart ==
    /\ cat = 1
    /\ pops = <<>>
    /\ results = <<>>
    /\ ret = "none"
    /\ printed = <<>>
    /\ exitCode = "running"
    /\ earlier = <<>>

\* Trees of empty files below a root of any kind: nothing lies below a root
\* that is missing or a file, and nothing below a root that cannot be listed
\* is ever listed.
InitTree ==
    /\ rootKind \in {"dir", "denied", "missing", "file"}
    /\ unlistable \in {{}, {<<D_src>>}, {<<D_node_modules>>}}
    /\ files \in SeqsUpTo(TreeFiles, MaxFiles)
    /\ DistinctPaths(files)
    /\ rootKind \in {"missing", "file"} => files = <<>>
    /\ rootKind # "dir" => unlistable = {}
    /\ RunStart

\* The vocabularies of the texts, and the extensions of the files that hold
\* them (the first file has the first extension, and so on in turn).
Topics ==
    { [words |-> {"localStorage", "sessionStorage", "IndexedDB"}, exts |-> <<"ts">>],
      [words |-> {"try", "{", "try{"}, exts |-> <<"ts">>],
      [words |-> {"http.get(", ".post(", "catchError"}, exts |-> <<"ts">>],
      [words |-> {"HttpClient", ".catch(", "'https://a.io'"}, exts |-> <<"ts">>],
      [words |-> {"innerHTML", "eval(", "DomSanitizer"}, exts |-> <<"ts">>],
      [words |-> {"AuthService", "login", "autologout"}, exts |-> <<"ts">>],
      [words |-> {"BehaviorSubject", "RouterModule", "loadChildren"}, exts |-> <<"ts">>],
      [words |-> {"ErrorHandler", "timeout", "indexedDB"}, exts |-> <<"ts">>],
      [words |-> {"@media", "(w)", "--primary"}, exts |-> <<"scss", "css">>],
      [words |-> {"@media(w)", "@mixin", "theme"}, exts |-> <<"css", "scss">>] }

STEMS == <<"a", "b", "c", "d", "e", "f">>

\* The piece of a text between two cuts.
Piece(tape, cut, j, n) ==
    SubSeq(tape, (IF j = 1 THEN 0 ELSE cut[j - 1]) + 1, IF j = n THEN Len(tape) ELSE cut[j])

\* A listable root directory holding up to MaxFiles files of one topic, up to
\* MaxWords words of text cut into the files; the first file may be unreadable.
InitContent ==
    /\ rootKind = "dir"
    /\ unlistable = {}
    /\ \E topic \in Topics, n \in 0..MaxFiles :
       \E tape \in SeqsUpTo(topic.words, IF n = 0 THEN 0 ELSE MaxWords) :
       \E cut \in [1..(n - 1) -> 0..Len(tape)], rd \in [1..n -> BOOLEAN] :
          /\ \A j \in 1..(n - 2) : cut[j] <= cut[j + 1]
          /\ \A i \in 2..n : rd[i]
          /\ files = [j \in 1..n |->
                        [dir |-> Root,
                         name |-> <<STEMS[j], topic.exts[((j - 1) % Len(topic.exts)) + 1]>>,
                         content |-> Piece(tape, cut, j, n), readable |-> rd[j]]]
    /\ RunStart

Init == InitTree \/ InitContent

-----------------------------------------------------------------------------
(* analyze_all and main                                                    *)

\* The extensions each category collects, in the order of its
\* find_files_with_extension calls.
PASSES ==
    << <<EXT_html, EXT_component_ts, EXT_css, EXT_scss>>, <<EXT_ts>>, <<EXT_ts>>,
       <<EXT_ts>>, <<EXT_ts>>, <<EXT_ts>>, <<EXT_ts>>, <<EXT_ts>>,
       <<EXT_scss, EXT_css>>, <<EXT_ts>>, <<EXT_ts>> >>

NumCategories == Len(PASSES)

\* What analyze_* of category c builds from the populations p it collected.
evaluate(fs, c, p) ==
    CASE c = 1 -> ui_screens_result(fs, p[1], p[2], p[3], p[4])
      [] c = 2 -> data_storage_result(ReadContents(fs, p[1]))
      [] c = 3 -> api_result(ReadContents(fs, p[1]))
      [] c = 4 -> authentication_result(ReadContents(fs, p[1]))
      [] c = 5 -> session_management_result(ReadContents(fs, p[1]))
      [] c = 6 -> security_result(ReadContents(fs, p[1]))
      [] c = 7 -> state_management_result(ReadContents(fs, p[1]))
      [] c = 8 -> routing_result(ReadContents(fs, p[1]))
      [] c = 9 -> ui_design_system_result(ReadContents(fs, p[1] \o p[2]))
      [] c = 10 -> error_handling_result(ReadContents(fs, p[1]))
      [] c = 11 -> performance_result(ReadContents(fs, p[1]))

\* One find_files_with_extension(..)? of category c: Err returns from
\* analyze_all; after the last collection the category is evaluated and its
\* result pushed; after the last category analyze_all returns Ok(results).
Step(c) ==
    /\ ret = "none"
    /\ LET r == find_files_with_extension(FS, PASSES[c][Len(pops) + 1]) IN
       IF ~r.ok
       THEN /\ ret' = "Err"
            /\ results' = <<>>
            /\ pops' = <<>>
            /\ cat' = cat
       ELSE IF Len(pops) + 1 < Len(PASSES[c])
       THEN /\ pops' = Append(pops, r.files)
            /\ UNCHANGED <<cat, results, ret>>
       ELSE /\ results' = Append(results, evaluate(FS, c, Append(pops, r.files)))
            /\ pops' = <<>>
            /\ cat' = c + 1
            /\ ret' = IF c = NumCategories THEN "Ok" ELSE "none"
    /\ UNCHANGED <<fsVars, printed, exitCode, earlier>>

analyze_ui_screens == cat = 1 /\ Step(1)
analyze_data_storage == cat = 2 /\ Step(2)
analyze_api == cat = 3 /\ Step(3)
analyze_authentication == cat = 4 /\ Step(4)
analyze_session_management == cat = 5 /\ Step(5)
analyze_security == cat = 6 /\ Step(6)
analyze_state_management == cat = 7 /\ Step(7)
analyze_routing == cat = 8 /\ Step(8)
analyze_ui_design_system == cat = 9 /\ Step(9)
analyze_error_handling == cat = 10 /\ Step(10)
analyze_performance == cat = 11 /\ Step(11)

\* lines 859-893: print every result and end normally, or print the error and
\* exit(1)
main ==
    /\ ret # "none"
    /\ exitCode = "running"
    /\ IF ret = "Ok"
       THEN printed' = results /\ exitCode' = "0"
       ELSE printed' = <<>> /\ exitCode' = "1"
    /\ UNCHANGED <<fsVars, cat, pops, results, ret, earlier>>

Next ==
    \/ analyze_ui_screens
    \/ analyze_data_storage
    \/ analyze_api
    \/ analyze_authentication
    \/ analyze_session_management
    \/ analyze_security
    \/ analyze_state_management
    \/ analyze_routing
    \/ analyze_ui_design_system
    \/ analyze_error_handling
    \/ analyze_performance
    \/ main

Spec == Init /\ [][Next]_vars

\* analyze_all_again with the vector of the earlier call kept
analyze_all_again_keeps_results ==
    /\ ret # "none"
    /\ exitCode = "running"
    /\ earlier = <<>>
    /\ earlier' = <<[ret |-> ret, results |-> results, fs |-> FS]>>
    /\ cat' = 1
    /\ pops' = <<>>
    /\ results' = results
    /\ ret' = "none"
    /\ UNCHANGED <<fsVars, printed, exitCode>>

\* A second call of analyze_all(&self) on the same analyzer, after the first
\* has returned: it starts from `let mut results = Vec::new()` and from the
\* first category; &self gives it no way to change project_path.  The value
\* of the first call and the tree it saw are kept for comparison.
analyze_all_again ==
    /\ ret # "none"
    /\ exitCode = "running"
    /\ earlier = <<>>
    /\ earlier' = <<[ret |-> ret, results |-> results, fs |-> FS]>>
    /\ cat' = 1
    /\ pops' = <<>>
    /\ results' = <<>>
    /\ ret' = "none"
    /\ UNCHANGED <<fsVars, printed, exitCode>>

NextAgain == Next \/ analyze_all_again

\* The trees of the two-call runs: the trees with text whose files can all be
\* read, and the trees of empty files with one file less.
InitAgain ==
    \/ InitContent /\ \A i \in 1..Len(files) : files[i].readable
    \/ InitTree /\ Len(files) < MaxFiles

SpecAgain == InitAgain /\ [][NextAgain]_vars

\* Another process changes the tree while analyze_all runs, between two
\* find_files_with_extension calls: the next call reads the tree as it then
\* is (is_dir and read_dir of lines 811-812).

\* the project root loses its read permission
root_becomes_unlistable ==
    /\ ret = "none"
    /\ rootKind = "dir"
    /\ rootKind' = "denied"
    /\ UNCHANGED <<unlistable, files, cat, pops, results, ret, printed, exitCode, earlier>>

\* a directory the traversal descends into loses its read permission
nested_becomes_unlistable ==
    /\ ret = "none"
    /\ rootKind = "dir"
    /\ \E d \in NestedDirs \ unlistable :
          /\ \A k \in 1..Len(d) : Descends(d[k])
          /\ unlistable' = unlistable \cup {d}
    /\ UNCHANGED <<rootKind, files, cat, pops, results, ret, printed, exitCode, earlier>>

\* the project root is deleted with all it holds: is_dir(project_path) is
\* false from now on, and read_to_string fails on every path collected before
root_deleted ==
    /\ ret = "none"
    /\ rootKind = "dir"
    /\ rootKind' = "missing"
    /\ unlistable' = {}
    /\ files' = [k \in 1..Len(files) |-> [files[k] EXCEPT !.readable = FALSE]]
    /\ UNCHANGED <<cat, pops, results, ret, printed, exitCode, earlier>>

NextEnv ==
    \/ Next
    \/ root_becomes_unlistable
    \/ nested_becomes_unlistable
    \/ root_deleted

\* The trees of the runs with a changing tree: those with one file less.
InitEnv == Init /\ Len(files) < MaxFiles

SpecEnv == InitEnv /\ [][NextEnv]_vars

-----------------------------------------------------------------------------
(* Properties                                                              *)

Returned == ret # "none"

\* The populations of category c on a file system, and the result of the
\* category on them.
Populations(fs, c) ==
    [k \in 1..Len(PASSES[c]) |-> find_files_with_extension(fs, PASSES[c][k]).files]
RunCategory(fs, c) == evaluate(fs, c, Populations(fs, c))

Range(q) == {q[k] : k \in 1..Len(q)}

AllExts == {EXT_html, EXT_component_ts, EXT_css, EXT_scss, EXT_ts}

\* A directory named node_modules, or with a name that starts with '.', lies
\* between the root and the files of dir (dir itself included).
UnderExcluded(dir) ==
    \E k \in 1..Len(dir) : dir[k] = <<"node_modules">> \/ dir[k][1] = ""

FixedOrder ==
    <<"screens", "storage", "API", "authentication", "session", "security",
      "state management", "routing", "design system", "error handling", "performance">>

\* C1: on a tree whose directories are all listable analyze_all returns Ok
\* with exactly 11 reports, one per category, in the fixed order, whatever the
\* files are.
C1_ElevenReportsInOrder ==
    (rootKind = "dir" /\ unlistable = {} /\ Returned) =>
        /\ ret = "Ok"
        /\ Len(results) = 11
        /\ \A c \in 1..11 : results[c].category = FixedOrder[c]

C1_Witness ==
    /\ rootKind = "dir" /\ unlistable = {} /\ ret = "Ok"
    /\ Len(files) = 2 /\ files[1].content # <<>>
    /\ Len(results) = 11

\* C2 (as claimed): a nested directory that cannot be listed is treated as
\* empty, so on a listable root analyze_all never returns Err and returns all
\* 11 reports.
C2_NestedUnlistableAbsorbed ==
    (rootKind = "dir" /\ Returned) => (ret = "Ok" /\ Len(results) = 11)

\* C3 (as claimed): when the root cannot be listed (it is missing, it is not a
\* directory, or listing it is denied) analyze_all returns Err, and main prints
\* no report and exits with 1.
C3_UnlistableRootFails ==
    (rootKind # "dir" /\ Returned) =>
        /\ ret = "Err"
        /\ results = <<>>
        /\ exitCode # "running" => (printed = <<>> /\ exitCode = "1")

\* C4: once analyze_all has returned Ok, the population of every extension
\* holds no file below a directory named node_modules or starting with '.',
\* and holds every matching file that has no such directory above it.
C4_ExcludedDirectories ==
    ret = "Ok" =>
        \A ext \in AllExts :
            LET r == find_files_with_extension(FS, ext)
                members == Range(r.files)
            IN
            /\ r.ok
            /\ \A i \in members : ~UnderExcluded(files[i].dir)
            /\ \A i \in 1..Len(files) :
                   (MatchesExtension(files[i].name, ext) /\ ~UnderExcluded(files[i].dir))
                       => i \in members

C4_Witness ==
    /\ ret = "Ok"
    /\ \E i, j \in 1..Len(files) :
          /\ files[i].dir = <<D_src, D_cache>> /\ files[i].name = <<"x", "ts">>
          /\ files[j].dir = <<D_src>> /\ files[j].name = <<"x", "ts">>
          /\ results[2].details[1] = <<"LOCAL_STORAGE", 0>>
          /\ find_files_with_extension(FS, EXT_ts).files = <<j>>

\* The name ends with '.' and the suffix.
EndsWithSuffix(n, ext) ==
    Len(n) > Len(ext) /\ \A k \in 1..Len(ext) : n[Len(n) - Len(ext) + k] = ext[k]

\* The file is in the population of the extension.
InPopulation(i, ext) == i \in Range(find_files_with_extension(FS, ext).files)

\* C5 (as claimed): a file is in the population of S exactly when its last
\* extension is S or its name ends with '.' and S.
C5_MatchExactlyWhen ==
    ret = "Ok" =>
        \A ext \in AllExts : \A i \in 1..Len(files) :
            ~UnderExcluded(files[i].dir) =>
                (InPopulation(i, ext) <=>
                    LET n == files[i].name IN
                    \/ (Len(n) > 1 /\ <<n[Len(n)]>> = ext)
                    \/ EndsWithSuffix(n, ext))

\* Path::extension is Some: the name has a '.' other than a single leading one.
NameHasExtension(n) == Len(n) > 2 \/ (Len(n) = 2 /\ n[1] # "")

\* C5 (amended): a file whose name has an extension is in the population of S
\* exactly when its last extension is S or its name ends with '.' and S; a
\* file whose name has no extension (x, or the dot-file .ts) is in no
\* population; x.component.ts is in the component.ts and the ts population,
\* x.ts in the ts population only; no file is twice in a population.
C5_MatchAmended ==
    ret = "Ok" =>
        \A ext \in AllExts :
            LET pop == find_files_with_extension(FS, ext).files
                members == Range(pop)
            IN
            /\ \A i \in 1..Len(files) :
                  ~UnderExcluded(files[i].dir) =>
                      LET n == files[i].name IN
                      /\ i \in members <=>
                            /\ NameHasExtension(n)
                            /\ (<<n[Len(n)]>> = ext \/ EndsWithSuffix(n, ext))
                      /\ n = <<"x", "component", "ts">> =>
                            (i \in members <=> ext \in {EXT_component_ts, EXT_ts})
                      /\ n = <<"x", "ts">> => (i \in members <=> ext = EXT_ts)
            /\ \A k, l \in 1..Len(pop) : pop[k] = pop[l] => k = l

C5_Witness ==
    /\ ret = "Ok"
    /\ Len(files) = 2
    /\ files[1].dir = Root /\ files[1].name = <<"x", "component", "ts">>
    /\ files[2].dir = Root /\ files[2].name = <<"", "ts">>
    /\ results[1].details[2] = <<"COMPONENTS", 1>>
    /\ find_files_with_extension(FS, EXT_ts).files = <<1>>

\* The readable files of the .ts population.
ReadableTs ==
    LET pop == find_files_with_extension(FS, EXT_ts).files
    IN  {i \in Range(pop) : files[i].readable}

\* The readable .ts files that hold one of the words at least once.
FilesWith(W) ==
    Cardinality({i \in ReadableTs : \E k \in 1..Len(files[i].content) : files[i].content[k] \in W})

\* The occurrences of the words in all readable .ts files.
OccurrencesOf(W) ==
    Cardinality(UNION {{<<i, k>> : k \in {l \in 1..Len(files[i].content) :
                                              files[i].content[l] \in W}} : i \in ReadableTs})

\* The occurrences of "try{" and of "try {" in all readable .ts files.
TryOccurrences ==
    Cardinality(UNION {{<<i, k>> : k \in {l \in 1..Len(files[i].content) :
            \/ files[i].content[l] = "try{"
            \/ /\ files[i].content[l] = "try"
               /\ l < Len(files[i].content)
               /\ files[i].content[l + 1] = "{"}} : i \in ReadableTs})

\* The number of times w is in the sequence q.
Times(q, w) == Cardinality({k \in 1..Len(q) : q[k] = w})

\* The orders read_dir can yield the files in.
Orders ==
    {p \in [1..Len(files) -> 1..Len(files)] : \A i, j \in 1..Len(files) : p[i] = p[j] => i = j}
Reordered(p) == [FS EXCEPT !.files = [k \in 1..Len(files) |-> files[p[k]]]]

\* C6 (as claimed): whatever order the traversal yields the files in, every
\* category report has the same details sequence and the same warnings
\* sequence.
C6_OrderIndependent ==
    ret = "Ok" =>
        \A p \in Orders : \A c \in 1..11 :
            /\ RunCategory(Reordered(p), c).details = results[c].details
            /\ RunCategory(Reordered(p), c).warnings = results[c].warnings

\* C7 (as claimed): the security warnings hold the innerHTML warning exactly
\* once when some readable .ts file holds "innerHTML", and not at all otherwise.
C7_InnerHtmlWarnedOnce ==
    ret = "Ok" =>
        Times(results[6].warnings, "W_INNERHTML")
            = IF FilesWith({"innerHTML"}) > 0 THEN 1 ELSE 0

\* C8: the storage counts are numbers of readable .ts files that hold the
\* substring (two occurrences in a file add 1), the try-block count is the
\* number of try-block occurrences in all readable .ts files (two occurrences
\* in a file add 2).
C8_CountingSemantics ==
    ret = "Ok" =>
        /\ results[2].details =
              << <<"LOCAL_STORAGE", FilesWith({"localStorage"})>>,
                 <<"SESSION_STORAGE", FilesWith({"sessionStorage"})>>,
                 <<"INDEXED_DB", FilesWith({"indexedDB", "IndexedDB"})>> >>
        /\ results[10].details[2] = <<"TRY_CATCH_BLOCKS", TryOccurrences>>

C8_Witness ==
    /\ ret = "Ok"
    /\ Len(files) = 1
    /\ files[1].readable
    /\ files[1].content = <<"localStorage", "localStorage">>
    /\ results[2].details[1] = <<"LOCAL_STORAGE", 1>>

\* C9: the last three detail lines of the API report are the number of
\* readable .ts files with "HttpClient" or "http.", the number of quoted URL
\* literals in all of them, and the number of them with "catchError" or
\* "catch("; each of the two warnings is there exactly when its count is 0; a
\* single file with one HTTP-client indicator and one catch call gives 1, 0, 1
\* and no warning.
C9_ApiCounts ==
    ret = "Ok" =>
        LET d == results[3].details
            n == Len(d)
            w == results[3].warnings
            hc == FilesWith({"HttpClient", "http.get("})
            ep == OccurrencesOf({"'https://a.io'"})
            eh == FilesWith({"catchError", ".catch("})
        IN  /\ n >= 3
            /\ d[n - 2] = <<"HTTP_CLIENT_FILES", hc>>
            /\ d[n - 1] = <<"API_ENDPOINTS", ep>>
            /\ d[n] = <<"ERROR_HANDLING", eh>>
            /\ Times(w, "W_NO_HTTP") = (IF hc = 0 THEN 1 ELSE 0)
            /\ Times(w, "W_NO_API_ERROR_HANDLING") = (IF eh = 0 THEN 1 ELSE 0)
            /\ (/\ Len(files) = 1
                /\ files[1].readable
                /\ files[1].content = <<"HttpClient", ".catch(">>)
               => (/\ d = << <<"HTTP_CLIENT_FILES", 1>>, <<"API_ENDPOINTS", 0>>,
                             <<"ERROR_HANDLING", 1>> >>
                   /\ w = <<>>)

C9_Witness ==
    /\ ret = "Ok"
    /\ Len(files) = 1
    /\ files[1].readable
    /\ files[1].content = <<"HttpClient", ".catch(">>
    /\ Len(results[3].details) = 3

\* What every category reports on a tree without evidence.
NoEvidence ==
    << [category |-> "screens", status |-> "OK",
        details |-> << <<"HTML_FILES", 0>>, <<"COMPONENTS", 0>>, <<"STYLE_FILES", 0, 0, 0>> >>,
        warnings |-> <<"W_NO_RESPONSIVE">>, errors |-> <<>>],
       [category |-> "storage", status |-> "OK",
        details |-> << <<"LOCAL_STORAGE", 0>>, <<"SESSION_STORAGE", 0>>, <<"INDEXED_DB", 0>> >>,
        warnings |-> <<"W_NO_STORAGE">>, errors |-> <<>>],
       [category |-> "API", status |-> "OK",
        details |-> << <<"HTTP_CLIENT_FILES", 0>>, <<"API_ENDPOINTS", 0>>,
                       <<"ERROR_HANDLING", 0>> >>,
        warnings |-> <<"W_NO_HTTP", "W_NO_API_ERROR_HANDLING">>, errors |-> <<>>],
       [category |-> "authentication", status |-> "OK",
        details |-> << <<"AUTH_SERVICE", "unconfirmed">>, <<"LOGIN", "unconfirmed">>,
                       <<"JWT", "unconfirmed">>, <<"PASSWORD_VALIDATION", "unconfirmed">> >>,
        warnings |-> <<"W_NO_AUTH_SERVICE", "W_NO_LOGIN">>, errors |-> <<>>],
       [category |-> "session", status |-> "OK",
        details |-> << <<"SESSION_TIMEOUT", "unconfirmed">>, <<"AUTO_LOGOUT", "unconfirmed">>,
                       <<"SESSION_STORAGE_USE", "unconfirmed">> >>,
        warnings |-> <<"W_NO_SESSION_TIMEOUT">>, errors |-> <<>>],
       [category |-> "security", status |-> "OK",
        details |-> << <<"SANITIZE", "unconfirmed">>, <<"CSRF", "unconfirmed">>,
                       <<"HTTPS", "unconfirmed">> >>,
        warnings |-> <<"W_NO_SANITIZE">>, errors |-> <<>>],
       [category |-> "state management", status |-> "OK",
        details |-> << <<"NGRX", "unconfirmed">>, <<"AKITA", "unconfirmed">>,
                       <<"SERVICE", "unconfirmed">>, <<"SUBJECT", "unconfirmed">> >>,
        warnings |-> <<"W_NO_STATE_MANAGEMENT">>, errors |-> <<>>],
       [category |-> "routing", status |-> "OK",
        details |-> << <<"ROUTING", "unconfirmed">>, <<"GUARDS", "unconfirmed">>,
                       <<"LAZY_LOADING", "unconfirmed">> >>,
        warnings |-> <<"W_NO_ROUTING">>, errors |-> <<>>],
       [category |-> "design system", status |-> "OK",
        details |-> << <<"DESIGN_TOKENS", "unconfirmed">>,
                       <<"COMPONENT_LIBRARY", "unconfirmed">>, <<"THEME", "unconfirmed">> >>,
        warnings |-> <<>>, errors |-> <<>>],
       [category |-> "error handling", status |-> "OK",
        details |-> << <<"GLOBAL_ERROR_HANDLER", "unconfirmed">>, <<"TRY_CATCH_BLOCKS", 0>>,
                       <<"ERROR_INTERCEPTOR", "unconfirmed">> >>,
        warnings |-> <<"W_NO_GLOBAL_ERROR_HANDLER">>, errors |-> <<>>],
       [category |-> "performance", status |-> "OK",
        details |-> << <<"LAZY_LOADING", "unconfirmed">>, <<"CHANGE_DETECTION", "unconfirmed">>,
                       <<"VIRTUAL_SCROLL", "unconfirmed">>, <<"SERVICE_WORKER", "unconfirmed">> >>,
        warnings |-> <<"W_NO_LAZY_LOADING">>, errors |-> <<>>] >>

\* C10: on a listable root without files analyze_all returns Ok, every
\* presence check reads absent and every count 0, every category that warns on
\* absence holds its warnings (the design system has none), and no risk
\* warning is there.
C10_EmptyProject ==
    (rootKind = "dir" /\ unlistable = {} /\ files = <<>> /\ Returned) =>
        /\ ret = "Ok"
        /\ results = NoEvidence

C10_Witness ==
    /\ rootKind = "dir" /\ unlistable = {} /\ files = <<>>
    /\ ret = "Ok"
    /\ Len(results) = 11
    /\ results[1].warnings = <<"W_NO_RESPONSIVE">>

\* The file system without its i-th file.
WithoutFile(i) ==
    [FS EXCEPT !.files = [k \in 1..(Len(files) - 1) |->
                            IF k < i THEN files[k] ELSE files[k + 1]]]

\* What a report of category c holds that comes from file contents: all of
\* its details and warnings, but for the screens report (c = 1), whose first
\* three detail lines are the sizes of the populations.
ContentEvidence(c, r) ==
    [details |-> IF c = 1 THEN SubSeq(r.details, 4, Len(r.details)) ELSE r.details,
     warnings |-> r.warnings]

\* C11: a matching file that cannot be read as text makes no run fail and
\* contributes no evidence: on a listable tree analyze_all returns Ok, and for
\* every unreadable file every category report it returns holds the
\* content-based details and warnings that the run on the tree without that
\* file gives.
C11_UnreadableContributesNothing ==
    (rootKind = "dir" /\ unlistable = {} /\ Returned /\ exitCode = "running") =>
        /\ ret = "Ok"
        /\ \A i \in 1..Len(files) : ~files[i].readable =>
              \A c \in 1..11 :
                 ContentEvidence(c, results[c])
                    = ContentEvidence(c, RunCategory(WithoutFile(i), c))

C11_Witness ==
    /\ ret = "Ok"
    /\ Len(files) = 2
    /\ ~files[1].readable /\ files[1].content = <<"innerHTML">>
    /\ files[2].readable /\ files[2].content = <<"eval(">>
    /\ 1 \in Range(find_files_with_extension(FS, EXT_ts).files)
    /\ results[6].warnings = <<"W_EVAL", "W_NO_SANITIZE">>

\* C13: every report a category evaluator has returned has status "OK" and an
\* empty errors list, whatever the tree is, also when the category found no
\* evidence at all or raised a risk warning.
C13_StatusOkNoErrors ==
    /\ \A k \in 1..Len(results) : results[k].status = "OK" /\ results[k].errors = <<>>
    /\ \A k \in 1..Len(printed) : printed[k].status = "OK" /\ printed[k].errors = <<>>

\* The security report holds a risk warning and the storage report of the same
\* run found nothing.
C13_Witness ==
    /\ ret = "Ok"
    /\ \E k \in 1..Len(files) : files[k].readable /\ files[k].content = <<"eval(">>
    /\ "W_EVAL" \in Range(results[6].warnings)
    /\ results[6].status = "OK" /\ results[6].errors = <<>>
    /\ results[2].details =
          << <<"LOCAL_STORAGE", 0>>, <<"SESSION_STORAGE", 0>>, <<"INDEXED_DB", 0>> >>
    /\ results[2].status = "OK"

\* C12: a second run of analyze_all on the same analyzer and tree returns what
\* the first returned (Ok with the same reports in the same order, or Err), and
\* the tree is the one the first run started on.
C12_Idempotent ==
    earlier # <<>> =>
        /\ FS = earlier[1].fs
        /\ Returned =>
              /\ ret = earlier[1].ret
              /\ results = earlier[1].results

C12_Witness ==
    /\ earlier # <<>>
    /\ ret = "Ok"
    /\ earlier[1].ret = "Ok"
    /\ Len(results) = 11
    /\ results = earlier[1].results
    /\ "W_INNERHTML" \in Range(results[6].warnings)

\* The first collection pass of the run: the HTML collection of the screens
\* category.
AtFirstPass == cat = 1 /\ pops = <<>>

\* C14 (as claimed): analyze_all returns Err only from its first collection
\* pass; once that pass has succeeded no later pass makes the run fail, also
\* when a directory becomes unlistable or is deleted between two passes.
C14_OnlyFirstPassAborts ==
    [][(ret = "none" /\ ret' = "Err") => AtFirstPass]_vars

====
